---- MODULE Spec2Model ----
(***************************************************************************)
(* Model of the chat broker of websocket-server/server.ts (class           *)
(* ChatServer, first definition in the file, lines 148-891).               *)
(*                                                                         *)
(* One action per event the server reacts to: a transport connection, an   *)
(* inbound frame (handleMessage and the handler it routes to), a pong, a   *)
(* close by the peer (peerClose), a transport error, the close event       *)
(* (handleDisconnect), the heartbeat sweep and the two setTimeout          *)
(* callbacks that close or terminate a socket.                             *)
(*                                                                         *)
(* handleMessage suspends at `await rateLimiter.consume` and routes the    *)
(* frame in a microtask, after the ws receiver has handled the rest of the *)
(* chunk the frame arrived in.  The action takes what follows the frame in *)
(* its chunk as the parameter tail: nothing, a pong frame (handlePong runs *)
(* first), a close frame (the handler finds the socket CLOSING and writes  *)
(* nothing), or more data frames and then a close frame (every handler     *)
(* finds the socket CLOSING; chunk names the socket until the last has     *)
(* run, and no other event is handled in between).  A pong frame may come  *)
(* before the close frame of a chunk: handlePong runs while the socket is  *)
(* as it was, the handlers after the close frame.  The part before the     *)
(* await only charges the rate limiter, which no handler reads, so data    *)
(* frames that share a chunk without a close frame behave as consecutive   *)
(* handleMessage steps.                                                    *)
(*                                                                         *)
(* Abstractions.                                                           *)
(*  - A user id is `user-<uuid>`, created once per username and never      *)
(*    deleted (handleAuth looks users up by username), so user ids and     *)
(*    usernames are in bijection and the model uses the username as id.    *)
(*  - Message ids (uuidv4) are drawn from a counter.                       *)
(*  - A socket is "NEW" before the server accepted it.  The ws library's   *)
(*    readyState CLOSING is split in two: "CLOSING" while the closing      *)
(*    handshake runs and "TERMINATED" after ws.terminate() (socket         *)
(*    destroyed, only the close event is still to come).  A socket that is *)
(*    CLOSING after the server's ws.close() still receives the frames of   *)
(*    its peer; one whose peer sent the close frame, ended the connection  *)
(*    or violated the protocol is in receiverDone and receives nothing: it *)
(*    stays registered, and its user online, until its close event.        *)
(*  - sent is the set of frames the last step wrote to sockets (copies     *)
(*    counts a frame written twice in one step), ev is the event the last  *)
(*    step handled.                                                        *)
(*  - A frame is its type, the fields of its payload and whether it has a  *)
(*    payload at all; data that parseMessage rejects is the frame of type  *)
(*    "MALFORMED".                                                         *)
(*  - ownFrames is a history variable: the rate limiter only stores the    *)
(*    points of each remote address, ownFrames remembers which connection  *)
(*    they came from.                                                      *)
(*  - The browser client (WebsocketService of websocket.service.ts) is the *)
(*    record client; its actions leave the server's variables unchanged    *)
(*    and are composed in the specification SpecClient.                    *)
(***************************************************************************)
EXTENDS Integers, Sequences, FiniteSets, TLC

\* ------------------------------------------------------------------ bounds
NConn == 2
MaxMsgs == 2
MaxClock == 1
LogExtra == 3
MaxBeatClock == 6
MaxReq == 2
MaxClientTicks == 3
MaxAuthSubs == 2
MaxChunkFrames == 3

Conns == 1..NConn
Usernames == {"alice", "bob"}
RoomIds == {"general", "r1"}
Contents == {"hi"}
IPs == {"ip1", "ip2"}

\* --------------------------------------------------------- program constants
RL_POINTS == 10
MAX_MESSAGES_PER_ROOM == 1000
HISTORY_TAIL == 100
PING_INTERVAL == 30000
STALE_AFTER == 60000
HEARTBEAT_INTERVAL == 25000
MAX_RECONNECT_ATTEMPTS == 5

\* The clock advances in steps of half a heartbeat interval.
ClockStep == PING_INTERVAL \div 2
DefaultRooms == {"general", "random"}

NoUser == "undefined"

VARIABLES
  rs,             \* socket life cycle of each connection
  ip,             \* ws.ip
  wsUserId,       \* ws.userId
  clients,        \* ChatServer.clients (keys of the registry)
  users,          \* ChatServer.users: userId -> [status, lastSeen]
  rooms,          \* ChatServer.rooms: roomId -> members
  messageHistory, \* ChatServer.messageHistory: roomId -> sequence of messages
  typingUsers,    \* ChatServer.typingUsers: roomId -> set of userIds
  consumed,       \* rateLimiter: points consumed per key in the current window
  ownFrames,      \* history: frames of each connection counted in that window
  lastPing,       \* ws.lastPing
  isAlive,        \* ws.isAlive
  receiverDone,   \* sockets whose peer has closed or violated the protocol
  chunk,          \* the socket whose chunk still holds a frame to route, or 0
  chunkFrames,    \* frames of that chunk that have been routed
  closeTimers,    \* pending setTimeout(() => ws.close(4000)) of handleAuth
  termTimers,     \* pending setTimeout(() => ws.terminate()) of handleError
  msgCount,       \* number of message ids handed out
  now,            \* clock
  ev,             \* the event handled by the last step
  sent,           \* frames written to sockets by the last step
  client          \* the WebsocketService object of one browser client

vars == <<rs, ip, wsUserId, clients, users, rooms, messageHistory, typingUsers,
          consumed, ownFrames, lastPing, isAlive, receiverDone, chunk, chunkFrames,
          closeTimers, termTimers, msgCount, now, ev, sent, client>>

\* the state of the server
serverVars == <<rs, ip, wsUserId, clients, users, rooms, messageHistory, typingUsers,
                consumed, ownFrames, lastPing, isAlive, receiverDone, chunk,
                chunkFrames, closeTimers, termTimers, msgCount, now, ev, sent>>

\* ------------------------------------------------------------------ helpers
MapSet(m, k, v) == [x \in DOMAIN m \cup {k} |-> IF x = k THEN v ELSE m[x]]
MapDelete(m, k) == [x \in DOMAIN m \ {k} |-> m[x]]
Has(m, k) == k \in DOMAIN m
EmptyMap == [x \in {} |-> {}]

\* ws.readyState === 1 (WebSocket.OPEN)
isOpen(r) == r = "OPEN"

\* wss.clients of the ws library: the sockets whose close event has not fired
wssClients(r) == {c \in Conns : r[c] \in {"OPEN", "CLOSING", "TERMINATED"}}

\* ws.terminate(): no effect on a closed socket, destroys any other
terminate(r) == IF r \in {"CLOSED", "NEW"} THEN r ELSE "TERMINATED"

\* ------------------------------------------------------------------- frames
\* hasPayload: the frame has a payload object
Frame(type) == [type |-> type, hasPayload |-> TRUE, username |-> "", token |-> "",
                roomId |-> "", isTyping |-> FALSE, content |-> ""]
NoFrame == Frame("")

AuthFrames == {[Frame("AUTHENTICATE") EXCEPT !.username = u, !.token = t] :
                 u \in Usernames \cup {""}, t \in Usernames \cup {""}}
JoinFrames == {[Frame("JOIN_ROOM") EXCEPT !.roomId = r] : r \in RoomIds}
LeaveFrames == {[Frame("LEAVE_ROOM") EXCEPT !.roomId = r] : r \in RoomIds}
ChatFrames == {[Frame("SEND_MESSAGE") EXCEPT !.roomId = r, !.content = t] :
                 r \in RoomIds, t \in Contents}
TypingFrames == {[Frame("TYPING_STATUS") EXCEPT !.roomId = r, !.isTyping = b] :
                 r \in RoomIds, b \in BOOLEAN}
OtherFrames == {Frame("PING"), Frame("PONG"), Frame("FOO"), Frame("MALFORMED")}
Frames == AuthFrames \cup JoinFrames \cup LeaveFrames \cup ChatFrames
            \cup TypingFrames \cup OtherFrames

\* ------------------------------------------------------------ outbound frames
Out(to, type) == [to |-> to, type |-> type, code |-> "", room |-> "", userId |-> "",
                  status |-> "", isTyping |-> FALSE, msgId |-> 0,
                  messages |-> <<>>, members |-> {}, copies |-> 1]

\* sendResponse: writes only to a socket whose readyState is OPEN
sendResponse(r, o) == IF isOpen(r[o.to]) THEN {o} ELSE {}

\* ws.ping(): a ping frame, written only to an open socket
ping(r, c) == IF isOpen(r[c]) THEN {Out(c, "ping")} ELSE {}

\* sendError
sendError(r, c, code) == sendResponse(r, [Out(c, "ERROR") EXCEPT !.code = code])

\* broadcastToRoom without the test of room.members
broadcastToRoom_everyone(r, uid, rms, roomId, excludeWs) ==
  IF ~Has(rms, roomId) THEN {}
  ELSE {c \in wssClients(r) : c # excludeWs /\ isOpen(r[c])}

\* broadcastToRoom without the exclusion of the triggering socket
broadcastToRoom_noExclude(r, uid, rms, roomId, excludeWs) ==
  IF ~Has(rms, roomId) THEN {}
  ELSE {c \in wssClients(r) : uid[c] \in rms[roomId] /\ isOpen(r[c])}

\* broadcastToRoom: the sockets the frame is written to
broadcastToRoom(r, uid, rms, roomId, excludeWs) ==
  IF ~Has(rms, roomId) THEN {}
  ELSE {c \in wssClients(r) : /\ c # excludeWs
                              /\ uid[c] \in rms[roomId]
                              /\ isOpen(r[c])}

\* room.members.has that finds nobody
isMember_never(rms, roomId, userId) == FALSE

\* room.members.has(ws.userId)
isMember(rms, roomId, userId) == userId \in rms[roomId]

\* roomMessages.unshift in place of push
push_front(s, m) == <<m>> \o s

\* roomMessages.push(newMessage)
push(s, m) == Append(s, m)

\* roomMessages.splice that removes the k newest messages
splice_newest(s, k) == SubSeq(s, 1, Len(s) - k)

\* roomMessages.splice(0, k): removes the k oldest messages
splice(s, k) == SubSeq(s, k + 1, Len(s))

\* tail: what follows the frame in the same chunk of the socket's data
Event(kind, c, f) == [kind |-> kind, conn |-> c, frame |-> f, tail |-> ""]

\* ------------------------------------------------------------------- client
\* The browser client, app/features/chat/services/websocket.service.ts.  One
\* WebsocketService object is modelled; the variable client is the record of
\* its fields.  Its peer is any server: inbound frames are inputs.

\* requests the application passes to sendMessage
ReqIds == 1..MaxReq

\* heartbeatIntervalId = null
NoTimer == 0

\* Date.now() when the service is constructed, in ms since the epoch: any
\* instant later than two heartbeat intervals after the epoch
ClientStart == 3 * HEARTBEAT_INTERVAL

\* who subscribed to the reply of an AUTHENTICATE frame: handleOpen ("open")
\* or the application ("manual")
AuthOrigins == {"open", "manual"}

ClientEvent(kind, r, note) == [kind |-> kind, req |-> r, note |-> note]

\* field initialisers and the constructor, which calls connect()
WebsocketService ==
  [socket            |-> "CONNECTING",
   isAuthenticated   |-> FALSE,
   authToken         |-> FALSE,
   authWait          |-> [who \in AuthOrigins |-> 0],
   messageQueue      |-> <<>>,
   pendingRequests   |-> {},
   timeouts          |-> {},
   reconnectTimeout  |-> FALSE,
   reconnectAttempts |-> 0,
   heartbeatAt       |-> NoTimer,
   lastHeartbeat     |-> 0,
   clock             |-> ClientStart,
   style             |-> [r \in ReqIds |-> "none"],
   outcomes          |-> [r \in ReqIds |-> <<>>],
   wire              |-> {},
   quietSince        |-> ClientStart,
   closeQueued       |-> FALSE,
   ev                |-> ClientEvent("init", 0, "")]

ClientOK ==
  /\ client.socket \in {"NULL", "CONNECTING", "OPEN", "CLOSING", "CLOSED"}
  /\ client.closeQueued \in BOOLEAN
  /\ client.closeQueued => client.socket \in {"CLOSING", "CLOSED"}
  /\ client.socket = "CLOSING" => client.closeQueued
  /\ client.isAuthenticated \in BOOLEAN
  /\ client.authToken \in BOOLEAN
  /\ client.authWait \in [AuthOrigins -> 0..MaxAuthSubs]
  /\ client.messageQueue \in Seq(ReqIds)
  /\ client.pendingRequests \subseteq ReqIds
  /\ client.timeouts \subseteq ReqIds
  /\ client.reconnectTimeout \in BOOLEAN
  /\ client.reconnectAttempts \in 0..MAX_RECONNECT_ATTEMPTS
  /\ client.heartbeatAt \in Nat
  /\ client.lastHeartbeat \in Nat
  /\ client.clock \in Nat
  /\ client.wire \subseteq ReqIds

TypeOK ==
  /\ rs \in [Conns -> {"NEW", "OPEN", "CLOSING", "TERMINATED", "CLOSED"}]
  /\ wsUserId \in [Conns -> Usernames \cup {NoUser}]
  /\ clients \subseteq Conns
  /\ DOMAIN users \subseteq Usernames
  /\ DOMAIN rooms \subseteq RoomIds \cup DefaultRooms \cup {""}
  /\ closeTimers \subseteq Conns
  /\ termTimers \subseteq Conns
  /\ msgCount \in Nat
  /\ ownFrames \in [Conns -> 0..(RL_POINTS + 1)]
  /\ now \in Nat
  /\ lastPing \in [Conns -> Nat]
  /\ isAlive \in [Conns -> BOOLEAN]
  /\ receiverDone \subseteq Conns
  /\ chunk \in Conns \cup {0}
  /\ chunk # 0 => (rs[chunk] = "CLOSING" /\ chunk \in receiverDone)
  /\ chunkFrames \in Nat
  /\ chunkFrames > 0 <=> chunk # 0
  /\ ClientOK

\* constructor, initializeDefaultRooms
Init ==
  /\ rs = [c \in Conns |-> "NEW"]
  /\ ip = [c \in Conns |-> ""]
  /\ wsUserId = [c \in Conns |-> NoUser]
  /\ clients = {}
  /\ users = EmptyMap
  /\ rooms = [r \in DefaultRooms |-> {}]
  /\ messageHistory = [r \in DefaultRooms |-> <<>>]
  /\ typingUsers = EmptyMap
  /\ consumed = [a \in IPs |-> 0]
  /\ ownFrames = [c \in Conns |-> 0]
  /\ lastPing = [c \in Conns |-> 0]
  /\ isAlive = [c \in Conns |-> TRUE]
  /\ receiverDone = {}
  /\ chunk = 0
  /\ chunkFrames = 0
  /\ closeTimers = {}
  /\ termTimers = {}
  /\ msgCount = 0
  /\ now = 0
  /\ ev = Event("init", 0, NoFrame)
  /\ sent = {}
  /\ client = WebsocketService

\* wss.on('connection')
Connect(c, addr) ==
  /\ chunk = 0
  /\ rs[c] = "NEW"
  /\ rs' = [rs EXCEPT ![c] = "OPEN"]
  /\ ip' = [ip EXCEPT ![c] = addr]
  /\ clients' = clients \cup {c}
  /\ isAlive' = [isAlive EXCEPT ![c] = TRUE]
  /\ lastPing' = [lastPing EXCEPT ![c] = now]
  /\ ev' = Event("connection", c, NoFrame)
  /\ sent' = {}
  /\ UNCHANGED <<wsUserId, users, rooms, messageHistory, typingUsers, consumed,
                 ownFrames, closeTimers, termTimers, msgCount, now>>
  /\ UNCHANGED <<receiverDone, chunk, chunkFrames, client>>

NoWs == 0

\* notifyUserStatusChange: one USER_STATUS_CHANGED per room the user is in and
\* per socket broadcastToRoom selects (nobody is excluded)
notifyUserStatusChange(r, uid, rms, userId, status) ==
  {[Out(c, "USER_STATUS_CHANGED") EXCEPT !.room = room, !.userId = userId,
                                         !.status = status] :
     <<room, c>> \in {p \in (DOMAIN rms) \X Conns :
                        /\ userId \in rms[p[1]]
                        /\ p[2] \in broadcastToRoom(r, uid, rms, p[1], NoWs)}}

\* handleError: INTERNAL_ERROR to an open socket, terminate it 100 ms later
handleError(c, r, w) ==
  /\ IF isOpen(r[c])
     THEN /\ sent' = w \cup sendError(r, c, "INTERNAL_ERROR")
          /\ termTimers' = termTimers \cup {c}
     ELSE /\ sent' = w
          /\ UNCHANGED termTimers
  /\ rs' = r /\ UNCHANGED <<wsUserId, clients, users, rooms, messageHistory, typingUsers,
                 closeTimers, msgCount>>

\* handleAuth: the credential check (the token must equal the username)
validCredential(username, token) == username # "" /\ token # "" /\ token = username

\* handleAuth that keeps the older sockets of the user
duplicateConnections_kept(c, userId) == {}

\* handleAuth: the registered sockets of the same user that are disconnected
duplicateConnections(c, userId) ==
  IF Has(users, userId) THEN {d \in clients : wsUserId[d] = userId /\ d # c} ELSE {}

\* A frame without payload makes the destructuring throw inside the try block.
handleAuth(c, f, r, w) ==
  IF ~f.hasPayload \/ ~validCredential(f.username, f.token)
  THEN /\ sent' = w \cup sendError(r, c, "AUTH_ERROR")
       /\ closeTimers' = closeTimers \cup {c}
       /\ rs' = r /\ UNCHANGED <<wsUserId, clients, users, rooms, messageHistory,
                      typingUsers, termTimers, msgCount>>
  ELSE LET userId == f.username
           dups == duplicateConnections(c, userId)
           rs1 == [d \in Conns |-> IF d \in dups THEN terminate(r[d]) ELSE r[d]]
           uid1 == [wsUserId EXCEPT ![c] = userId]
       IN /\ users' = MapSet(users, userId, [status |-> "online", lastSeen |-> now])
          /\ rs' = rs1
          /\ clients' = (clients \ dups) \cup {c}
          /\ wsUserId' = uid1
          /\ sent' = w \cup UNION {sendError(r, d, "DUPLICATE_CONNECTION") : d \in dups}
                       \cup sendResponse(rs1, [Out(c, "AUTH_SUCCESS") EXCEPT
                                                 !.userId = userId, !.status = "online"])
                       \cup sendResponse(rs1, [Out(c, "INITIAL_STATE") EXCEPT
                                                 !.userId = userId, !.status = "online"])
                       \cup ping(rs1, c)
                       \cup notifyUserStatusChange(rs1, uid1, rooms, userId, "online")
          /\ UNCHANGED <<rooms, messageHistory, typingUsers, closeTimers, termTimers,
                         msgCount>>

\* messages.slice(0, n)
Slice_head(s, n) == IF Len(s) <= n THEN s ELSE SubSeq(s, 1, n)

\* messages.slice(-n)
Slice(s, n) == IF Len(s) <= n THEN s ELSE SubSeq(s, Len(s) - n + 1, Len(s))

\* A frame without payload makes the async handler throw: its promise is
\* rejected, nobody awaits it, and the process-level handler only logs.
handleJoinRoom(c, f, r, w) ==
  IF wsUserId[c] = NoUser
  THEN /\ sent' = w \cup sendError(r, c, "UNAUTHORIZED")
       /\ rs' = r /\ UNCHANGED <<wsUserId, clients, users, rooms, messageHistory,
                      typingUsers, closeTimers, termTimers, msgCount>>
  ELSE IF ~f.hasPayload
  THEN /\ sent' = w
       /\ rs' = r /\ UNCHANGED <<wsUserId, clients, users, rooms, messageHistory,
                      typingUsers, closeTimers, termTimers, msgCount>>
  ELSE LET userId == wsUserId[c]
           roomId == f.roomId
           rooms1 == IF Has(rooms, roomId) THEN rooms ELSE MapSet(rooms, roomId, {})
           hist1 == IF Has(rooms, roomId) THEN messageHistory
                    ELSE MapSet(messageHistory, roomId, <<>>)
           joined == ~isMember(rooms1, roomId, userId)
           rooms2 == [rooms1 EXCEPT ![roomId] = @ \cup {userId}]
           messages == IF Has(hist1, roomId) THEN hist1[roomId] ELSE <<>>
       IN /\ rooms' = rooms2
          /\ messageHistory' = hist1
          /\ sent' = w \cup (IF joined
                      THEN {[Out(d, "USER_JOINED") EXCEPT !.room = roomId, !.userId = userId] :
                              d \in broadcastToRoom(r, wsUserId, rooms2, roomId, c)}
                      ELSE {})
                     \cup sendResponse(r, [Out(c, "ROOM_JOINED") EXCEPT
                            !.room = roomId,
                            !.messages = Slice(messages, HISTORY_TAIL),
                            !.members = rooms2[roomId] \cap DOMAIN users])
          /\ rs' = r /\ UNCHANGED <<wsUserId, clients, users, typingUsers, closeTimers,
                         termTimers, msgCount>>

\* handleLeaveRoom that keeps the user in room.members
membersDelete_keep(members, userId) == members

\* room.members.delete(ws.userId)
membersDelete(members, userId) == members \ {userId}

handleLeaveRoom(c, f, r, w) ==
  LET userId == wsUserId[c]
      roomId == f.roomId
      quiet == rs' = r /\ UNCHANGED <<wsUserId, clients, users, rooms, messageHistory,
                           typingUsers, closeTimers, termTimers, msgCount>>
  IN IF userId = NoUser
     THEN sent' = w \cup sendError(r, c, "UNAUTHORIZED") /\ quiet
     ELSE IF ~f.hasPayload
     THEN sent' = w /\ quiet
     ELSE IF ~Has(users, userId) \/ ~Has(rooms, roomId)
     THEN sent' = w \cup sendError(r, c, "INVALID_ROOM") /\ quiet
     ELSE IF ~isMember(rooms, roomId, userId)
     THEN sent' = w \cup sendError(r, c, "NOT_A_MEMBER") /\ quiet
     ELSE LET rooms1 == [rooms EXCEPT ![roomId] = membersDelete(@, userId)]
          IN /\ rooms' = rooms1
             /\ sent' = w \cup {[Out(d, "USER_LEFT") EXCEPT !.room = roomId, !.userId = userId] :
                           d \in broadcastToRoom(r, wsUserId, rooms1, roomId, NoWs)}
             /\ rs' = r /\ UNCHANGED <<wsUserId, clients, users, messageHistory, typingUsers,
                            closeTimers, termTimers, msgCount>>

\* uuidv4 that returns the same id every time
newId_same(n) == 1

\* uuidv4(): the n+1-th id the server draws, distinct from the n drawn before
newId(n) == n + 1

\* a message whose sender is read from the payload
createMessage_payloadSender(c, f) ==
  [id |-> newId(msgCount), roomId |-> f.roomId, userId |-> f.username,
   content |-> f.content, timestamp |-> now]

\* handleChatMessage, newMessage: the sender is the user of ws.userId; of the
\* payload only roomId and content (and type, metadata) are read
createMessage(c, f) ==
  [id |-> newId(msgCount), roomId |-> f.roomId, userId |-> wsUserId[c],
   content |-> f.content, timestamp |-> now]

\* This handler is not async: the exception of a frame without payload reaches
\* the catch block of handleMessage, which calls handleError.
handleChatMessage(c, f, r, w) ==
  LET userId == wsUserId[c]
      roomId == f.roomId
      quiet == rs' = r /\ UNCHANGED <<wsUserId, clients, users, rooms, messageHistory,
                           typingUsers, closeTimers, termTimers, msgCount>>
  IN IF userId = NoUser
     THEN sent' = w \cup sendError(r, c, "UNAUTHORIZED") /\ quiet
     ELSE IF ~f.hasPayload
     THEN handleError(c, r, w)
     ELSE IF ~Has(users, userId) \/ ~Has(rooms, roomId)
     THEN sent' = w \cup sendError(r, c, "INVALID_ROOM") /\ quiet
     ELSE IF ~isMember(rooms, roomId, userId)
     THEN sent' = w \cup sendError(r, c, "NOT_A_MEMBER") /\ quiet
     ELSE LET newMessage == createMessage(c, f)
              roomMessages == push(IF Has(messageHistory, roomId)
                                   THEN messageHistory[roomId] ELSE <<>>, newMessage)
          IN /\ msgCount' = msgCount + 1
             /\ messageHistory' =
                  MapSet(messageHistory, roomId,
                         IF Len(roomMessages) > MAX_MESSAGES_PER_ROOM
                         THEN splice(roomMessages, Len(roomMessages) - MAX_MESSAGES_PER_ROOM)
                         ELSE roomMessages)
             /\ sent' = w \cup {[Out(d, "NEW_MESSAGE") EXCEPT !.room = roomId,
                                                      !.userId = newMessage.userId,
                                                      !.msgId = newMessage.id] :
                           d \in broadcastToRoom(r, wsUserId, rooms, roomId, c)}
             /\ rs' = r /\ UNCHANGED <<wsUserId, clients, users, rooms, typingUsers,
                            closeTimers, termTimers>>

handleTypingStatus(c, f, r, w) ==
  LET userId == wsUserId[c]
      roomId == f.roomId
      quiet == rs' = r /\ UNCHANGED <<wsUserId, clients, users, rooms, messageHistory,
                           typingUsers, closeTimers, termTimers, msgCount>>
  IN IF userId = NoUser
     THEN sent' = w /\ quiet
     ELSE IF ~f.hasPayload
     THEN sent' = w /\ quiet
     ELSE IF ~Has(users, userId) \/ ~Has(rooms, roomId) \/ ~isMember(rooms, roomId, userId)
     THEN sent' = w /\ quiet
     ELSE /\ typingUsers' =
               IF f.isTyping
               THEN MapSet(typingUsers, roomId,
                           (IF Has(typingUsers, roomId) THEN typingUsers[roomId] ELSE {})
                             \cup {userId})
               ELSE IF ~Has(typingUsers, roomId) THEN typingUsers
               ELSE IF typingUsers[roomId] \ {userId} = {}
                    THEN MapDelete(typingUsers, roomId)
                    ELSE [typingUsers EXCEPT ![roomId] = @ \ {userId}]
          /\ sent' = w \cup {[Out(d, "TYPING_UPDATE") EXCEPT !.room = roomId, !.userId = userId,
                                                     !.isTyping = f.isTyping] :
                        d \in broadcastToRoom(r, wsUserId, rooms, roomId, c)}
          /\ rs' = r /\ UNCHANGED <<wsUserId, clients, users, rooms, messageHistory,
                         closeTimers, termTimers, msgCount>>

\* handleMessage, the switch on message.type (parseMessage returned a message)
route(c, f, r, w) ==
  CASE f.type = "AUTHENTICATE" -> handleAuth(c, f, r, w)
    [] f.type = "JOIN_ROOM" -> handleJoinRoom(c, f, r, w)
    [] f.type = "LEAVE_ROOM" -> handleLeaveRoom(c, f, r, w)
    [] f.type = "SEND_MESSAGE" -> handleChatMessage(c, f, r, w)
    [] f.type = "TYPING_STATUS" -> handleTypingStatus(c, f, r, w)
    [] f.type = "PING" ->
         /\ sent' = LET reply == sendResponse(r, Out(c, "PONG"))
                    IN {o \in w \cup reply : o \notin w \cap reply}
                       \cup {[o EXCEPT !.copies = 2] : o \in w \cap reply}
         /\ rs' = r /\ UNCHANGED <<wsUserId, clients, users, rooms, messageHistory,
                        typingUsers, closeTimers, termTimers, msgCount>>
    [] f.type = "PONG" ->
         /\ sent' = w
         /\ rs' = r /\ UNCHANGED <<wsUserId, clients, users, rooms, messageHistory,
                        typingUsers, closeTimers, termTimers, msgCount>>
    [] OTHER ->
         /\ sent' = w \cup sendError(r, c, "UNKNOWN_MESSAGE_TYPE")
         /\ rs' = r /\ UNCHANGED <<wsUserId, clients, users, rooms, messageHistory,
                        typingUsers, closeTimers, termTimers, msgCount>>

\* parseMessage: null for data that is not a JSON object with a string type
parseMessage(f) == f.type # "MALFORMED"

\* rateLimiter.consume(key): the points consumed in the window after this call;
\* expired tells that the window of the key's previous points has passed
consume(key, expired) ==
  IF expired \/ consumed[key] = 0 THEN 1
  ELSE IF consumed[key] > RL_POINTS THEN consumed[key] ELSE consumed[key] + 1

\* The frames of each connection among the points consume(key, expired) has
\* counted for the connection's address: a new window forgets the frames of
\* every connection of that address.
countFrames(c, expired) ==
  LET fresh == expired \/ consumed[ip[c]] = 0
  IN [d \in Conns |->
        IF d = c THEN (IF fresh THEN 1
                       ELSE IF ownFrames[c] > RL_POINTS THEN ownFrames[c]
                       ELSE ownFrames[c] + 1)
        ELSE IF fresh /\ ip[d] = ip[c] THEN 0
        ELSE ownFrames[d]]

\* What the chunk of data that carries a frame may hold after it: nothing, a
\* pong control frame, a close frame, or more data frames and then a close
\* frame.  The listeners of the ws library run for the whole chunk, and the
\* rate limiter is charged for each of its frames within one window, before
\* the continuations of handleMessage run, one after the other; nothing else
\* runs in between, so while chunk names a socket only the frames that are
\* left of its chunk are routed.  A pong frame of a chunk that ends with a close
\* frame precedes the close frame: handlePong finds the socket as it was.
PongTails == {"pong", "pong close", "pong more"}
ClosingTails == {"close", "more", "pong close", "pong more"}
MoreTails == {"more", "pong more"}
ChunkTails == {""} \cup PongTails \cup ClosingTails

\* ws.on('message'): handleMessage.  The part before the await consumes a
\* point of the limiter; the rest of the chunk is handled (handlePong, or the
\* library's answer to a close frame, which makes readyState CLOSING); then
\* the continuation parses and routes the frame.
handleMessage(c, f, expired, tail) ==
  /\ IF chunk = 0 THEN rs[c] \in {"OPEN", "CLOSING"} /\ c \notin receiverDone
     ELSE chunk = c /\ tail \in ClosingTails \ PongTails
  /\ LET window == expired /\ chunk = 0
         closed == tail \in ClosingTails
         pong == tail \in PongTails
         r == IF closed THEN [rs EXCEPT ![c] = "CLOSING"] ELSE rs
         w == IF pong THEN sendResponse(rs, Out(c, "PONG")) ELSE {}
         accepted == consume(ip[c], window) <= RL_POINTS
     IN /\ consumed' = [consumed EXCEPT ![ip[c]] = consume(ip[c], window)]
        /\ ownFrames' = countFrames(c, window)
        /\ lastPing' = IF pong \/ (accepted /\ parseMessage(f) /\ f.type = "PONG")
                       THEN [lastPing EXCEPT ![c] = now]
                       ELSE lastPing
        /\ isAlive' = IF pong THEN [isAlive EXCEPT ![c] = TRUE] ELSE isAlive
        /\ receiverDone' = IF closed THEN receiverDone \cup {c} ELSE receiverDone
        /\ chunk' = IF tail \in MoreTails THEN c ELSE 0
        /\ chunkFrames' = IF tail \in MoreTails THEN chunkFrames + 1 ELSE 0
        /\ IF ~accepted
           THEN ev' = [Event("rejected", c, f) EXCEPT !.tail = tail] /\ handleError(c, r, w)
           ELSE IF ~parseMessage(f)
           THEN /\ ev' = [Event("unparsed", c, f) EXCEPT !.tail = tail]
                /\ sent' = w
                /\ rs' = r
                /\ UNCHANGED <<wsUserId, clients, users, rooms, messageHistory,
                               typingUsers, closeTimers, termTimers, msgCount>>
           ELSE ev' = [Event("message", c, f) EXCEPT !.tail = tail] /\ route(c, f, r, w)
  /\ UNCHANGED <<ip, now>>
  /\ UNCHANGED client

\* The peer closes: a close frame, or the end of the TCP connection.  The ws
\* library sets readyState to CLOSING and delivers nothing more; no listener
\* of ChatServer runs until the close event.
peerClose(c) ==
  /\ chunk = 0
  /\ rs[c] \in {"OPEN", "CLOSING"}
  /\ c \notin receiverDone
  /\ rs' = [rs EXCEPT ![c] = "CLOSING"]
  /\ receiverDone' = receiverDone \cup {c}
  /\ ev' = Event("peerClose", c, NoFrame)
  /\ sent' = {}
  /\ UNCHANGED <<ip, wsUserId, clients, users, rooms, messageHistory, typingUsers,
                 consumed, ownFrames, lastPing, isAlive, closeTimers, termTimers,
                 msgCount, now>>
  /\ UNCHANGED <<chunk, chunkFrames, client>>

\* ws.on('error'): handleError.  The ws library emits the event for a frame
\* that violates the protocol, after it has started to close the socket:
\* the listener sees readyState CLOSING.
onError(c) ==
  /\ chunk = 0
  /\ rs[c] \in {"OPEN", "CLOSING"}
  /\ c \notin receiverDone
  /\ receiverDone' = receiverDone \cup {c}
  /\ ev' = Event("error", c, NoFrame)
  /\ handleError(c, [rs EXCEPT ![c] = "CLOSING"], {})
  /\ UNCHANGED <<ip, consumed, ownFrames, lastPing, isAlive, now>>
  /\ UNCHANGED <<chunk, chunkFrames, client>>

\* handleDisconnect that never looks for another socket of the user
hasOtherConnections_none(c, userId) == FALSE

\* handleDisconnect that takes any other authenticated socket for the user's
hasOtherConnections_anyUser(c, userId) == \E d \in clients \ {c} : wsUserId[d] # NoUser

\* handleDisconnect: does another registered socket carry the user
hasOtherConnections(c, userId) == \E d \in clients \ {c} : wsUserId[d] = userId

\* this.clients.delete(ws.id)
unregister(cl, c) == cl \ {c}

\* ws.on('close'): handleDisconnect (the ws library has already set readyState
\* to CLOSED and removed the socket from wss.clients).  The event follows a
\* close by the peer (peerClose), ws.close() or ws.terminate().
handleDisconnect(c) ==
  /\ chunk = 0
  /\ rs[c] \in {"CLOSING", "TERMINATED"}
  /\ receiverDone' = receiverDone \ {c}
  /\ LET rs1 == [rs EXCEPT ![c] = "CLOSED"]
         userId == wsUserId[c]
     IN /\ rs' = rs1
        /\ clients' = unregister(clients, c)
        /\ IF userId # NoUser /\ Has(users, userId) /\ ~hasOtherConnections(c, userId)
           THEN /\ users' = [users EXCEPT ![userId] = [status |-> "offline", lastSeen |-> now]]
                /\ sent' = notifyUserStatusChange(rs1, wsUserId, rooms, userId, "offline")
           ELSE /\ sent' = {}
                /\ UNCHANGED users
  /\ ev' = Event("close", c, NoFrame)
  /\ ownFrames' = [ownFrames EXCEPT ![c] = 0]
  /\ UNCHANGED <<ip, wsUserId, rooms, messageHistory, typingUsers, consumed,
                 lastPing, isAlive, closeTimers, termTimers, msgCount, now>>
  /\ UNCHANGED <<chunk, chunkFrames, client>>

\* handleAuth, a setTimeout callback that leaves the socket open
closeTimeout_noop(c) ==
  /\ chunk = 0
  /\ c \in closeTimers
  /\ closeTimers' = closeTimers \ {c}
  /\ ev' = Event("closeTimeout", c, NoFrame)
  /\ sent' = {}
  /\ UNCHANGED <<rs, ip, wsUserId, clients, users, rooms, messageHistory, typingUsers,
                 consumed, ownFrames, lastPing, isAlive, termTimers, msgCount, now>>
  /\ UNCHANGED <<receiverDone, chunk, chunkFrames, client>>

\* handleAuth, the setTimeout callback: ws.close(4000) if the socket is open
closeTimeout(c) ==
  /\ chunk = 0
  /\ c \in closeTimers
  /\ closeTimers' = closeTimers \ {c}
  /\ rs' = [rs EXCEPT ![c] = IF isOpen(@) THEN "CLOSING" ELSE @]
  /\ ev' = Event("closeTimeout", c, NoFrame)
  /\ sent' = {}
  /\ UNCHANGED <<ip, wsUserId, clients, users, rooms, messageHistory, typingUsers,
                 consumed, ownFrames, lastPing, isAlive, termTimers, msgCount, now>>
  /\ UNCHANGED <<receiverDone, chunk, chunkFrames, client>>

\* handleError, the setTimeout callback: ws.terminate()
terminateTimeout(c) ==
  /\ chunk = 0
  /\ c \in termTimers
  /\ termTimers' = termTimers \ {c}
  /\ rs' = [rs EXCEPT ![c] = terminate(@)]
  /\ ev' = Event("terminateTimeout", c, NoFrame)
  /\ sent' = {}
  /\ UNCHANGED <<ip, wsUserId, clients, users, rooms, messageHistory, typingUsers,
                 consumed, ownFrames, lastPing, isAlive, closeTimers, msgCount, now>>
  /\ UNCHANGED <<receiverDone, chunk, chunkFrames, client>>

\* ws.on('pong'): handlePong
handlePong(c) ==
  /\ chunk = 0
  /\ rs[c] \in {"OPEN", "CLOSING"}
  /\ c \notin receiverDone
  /\ isAlive' = [isAlive EXCEPT ![c] = TRUE]
  /\ lastPing' = [lastPing EXCEPT ![c] = now]
  /\ sent' = sendResponse(rs, Out(c, "PONG"))
  /\ ev' = Event("pong", c, NoFrame)
  /\ UNCHANGED <<rs, ip, wsUserId, clients, users, rooms, messageHistory, typingUsers,
                 consumed, ownFrames, closeTimers, termTimers, msgCount, now>>
  /\ UNCHANGED <<receiverDone, chunk, chunkFrames, client>>

\* setupPingInterval that terminates nobody
unresponsive_never(c, t) == FALSE

\* setupPingInterval, the two tests that make the sweep at time t terminate a
\* socket: no pong for more than 60 s, or none since the previous sweep
unresponsive(c, t) == t - lastPing[c] > STALE_AFTER \/ ~isAlive[c]

\* setupPingInterval, the setInterval callback: the clock reaches the next
\* multiple of PING_INTERVAL and the sweep over wss.clients runs
sweep ==
  /\ chunk = 0
  /\ now < MaxBeatClock * ClockStep
  /\ (now + ClockStep) % PING_INTERVAL = 0
  /\ now' = now + ClockStep
  /\ LET dead == {c \in wssClients(rs) : unresponsive(c, now')}
         probed == wssClients(rs) \ dead
     IN /\ rs' = [c \in Conns |-> IF c \in dead THEN terminate(rs[c]) ELSE rs[c]]
        /\ isAlive' = [c \in Conns |-> IF c \in probed THEN FALSE ELSE isAlive[c]]
        /\ sent' = UNION {ping(rs, c) : c \in probed}
  /\ ev' = Event("sweep", 0, NoFrame)
  /\ UNCHANGED <<ip, wsUserId, clients, users, rooms, messageHistory, typingUsers,
                 consumed, ownFrames, lastPing, closeTimers, termTimers, msgCount>>
  /\ UNCHANGED <<receiverDone, chunk, chunkFrames, client>>

\* the close event of a socket that the server has closed or destroyed
closeEvent(c) == rs[c] \in {"CLOSING", "TERMINATED"} /\ handleDisconnect(c)

\* Date.now() advances by one step, up to n steps
Advance(n) ==
  /\ chunk = 0
  /\ now < n * ClockStep
  /\ now' = now + ClockStep
  /\ ev' = Event("tick", 0, NoFrame)
  /\ sent' = {}
  /\ UNCHANGED <<rs, ip, wsUserId, clients, users, rooms, messageHistory, typingUsers,
                 consumed, ownFrames, lastPing, isAlive, closeTimers, termTimers,
                 msgCount>>
  /\ UNCHANGED <<receiverDone, chunk, chunkFrames, client>>

Tick == Advance(MaxClock)

\* ----------------------------------------------------------- client actions
\* the requests held in messageQueue
queued(cl) == {cl.messageQueue[i] : i \in 1..Len(cl.messageQueue)}

\* get isConnected: socket?.readyState === WebSocket.OPEN
isConnected(cl) == cl.socket = "OPEN"

\* scheduleReconnect: gives up at maxReconnectAttempts, else arms the timer
scheduleReconnect(cl) ==
  IF cl.reconnectAttempts >= MAX_RECONNECT_ATTEMPTS THEN cl
  ELSE [cl EXCEPT !.reconnectAttempts = @ + 1, !.reconnectTimeout = TRUE]

\* cleanup: stopHeartbeat, messageQueue = [], pendingRequests.clear() (the
\* cleared requests are neither rejected nor are their timers cleared)
cleanup(cl) ==
  [cl EXCEPT !.heartbeatAt = NoTimer,
             !.messageQueue = <<>>,
             !.pendingRequests = {},
             !.reconnectTimeout = FALSE]

\* disconnect: drops the socket with its handlers removed (its close event
\* reaches nobody), clears the reconnection timer; heartbeat, queue and pending
\* requests are untouched
disconnect(cl) ==
  [cl EXCEPT !.socket = "NULL", !.reconnectTimeout = FALSE, !.closeQueued = FALSE]

\* connect: isConnecting is false whenever a handler starts (disconnect resets
\* it), so the early return is never taken; new WebSocket(url)
connect(cl) == [disconnect(cl) EXCEPT !.socket = "CONNECTING"]

\* processMessageQueue: every queued message goes through send(), that is
\* sendMessage without options: a frame with a new requestId is written and
\* the resolve/reject stored with the queued message are not called
processMessageQueue(cl) ==
  IF ~isConnected(cl) \/ cl.messageQueue = <<>> THEN cl
  ELSE [cl EXCEPT !.wire = @ \cup queued(cl), !.messageQueue = <<>>]

\* handleAuthError
handleAuthError(cl) == [cl EXCEPT !.isAuthenticated = FALSE]

\* the subscriptions of authenticate() that wait for a reply
waiting(cl) == cl.authWait["open"] + cl.authWait["manual"]

\* authenticate() with a token: on an open socket it subscribes to the
\* AUTH_SUCCESS / AUTH_ERROR frames and writes AUTHENTICATE, else it errors
authenticate(cl, who) ==
  IF ~isConnected(cl) THEN cl
  ELSE [cl EXCEPT !.authWait[who] = @ + 1]

\* socket.onopen
handleOpen ==
  /\ client.socket = "CONNECTING"
  /\ client.authToken => waiting(client) < MaxAuthSubs
  /\ LET cl1 == [client EXCEPT !.socket = "OPEN",
                               !.reconnectAttempts = 0,
                               !.heartbeatAt = client.clock + HEARTBEAT_INTERVAL,
                               !.isAuthenticated = FALSE,
                               !.quietSince = client.clock]
         cl2 == IF cl1.authToken THEN authenticate(cl1, "open") ELSE cl1
     IN client' = [cl2 EXCEPT !.ev = ClientEvent("open", 0, "")]
  /\ UNCHANGED serverVars

\* readyState of a WebSocket object that is neither connecting nor open
ClosedStates == {"CLOSING", "CLOSED"}

\* The WebSocket object leaves CONNECTING or OPEN: the connection was refused,
\* the closing handshake began (readyState CLOSING) or the connection was lost
\* (readyState CLOSED).  Its close event is dispatched later; until then the
\* service keeps its queue, its pending requests and its timers, and the
\* application and the timers find a socket that is not open.
socketCloses(state) ==
  /\ client.socket \in {"CONNECTING", "OPEN"}
  /\ client' = [client EXCEPT !.socket = state,
                              !.closeQueued = TRUE,
                              !.ev = ClientEvent("readyState", 0, state)]
  /\ UNCHANGED serverVars

\* socket.onclose: the close event of a socket that has left OPEN before
handleClose ==
  /\ client.closeQueued
  /\ client' = [scheduleReconnect(cleanup([client EXCEPT !.socket = "CLOSED",
                                                         !.closeQueued = FALSE]))
                  EXCEPT !.ev = ClientEvent("close", 0, "")]
  /\ UNCHANGED serverVars

\* the setTimeout callback of scheduleReconnect
reconnectTimer ==
  /\ client.reconnectTimeout
  /\ client' = [connect(client) EXCEPT !.ev = ClientEvent("reconnect", 0, "")]
  /\ UNCHANGED serverVars

\* sendMessage(type, payload, options), called by the application; style
\* "observer" passes {next, error, complete}, style "promise" nothing; a
\* message of type AUTHENTICATE is never queued
sendMessage(r, style, type) ==
  /\ client.style[r] = "none"
  /\ IF r = 1 THEN TRUE ELSE client.style[r - 1] # "none"
  /\ LET cl1 == [client EXCEPT !.style[r] = style]
     IN client' =
          IF ~isConnected(cl1)
            THEN [cl1 EXCEPT !.outcomes[r] =
                               Append(@, IF style = "observer" THEN "error" ELSE "thrown"),
                             !.ev = ClientEvent("send", r, "notConnected")]
          ELSE IF ~cl1.isAuthenticated /\ type # "AUTHENTICATE"
            THEN [cl1 EXCEPT !.messageQueue = Append(@, r),
                             !.ev = ClientEvent("send", r, "queued")]
          ELSE IF style = "promise"
            THEN [cl1 EXCEPT !.wire = @ \cup {r},
                             !.outcomes[r] = Append(@, "resolved"),
                             !.ev = ClientEvent("send", r, "written")]
          ELSE [cl1 EXCEPT !.timeouts = @ \cup {r},
                           !.pendingRequests = @ \cup {r},
                           !.wire = @ \cup {r},
                           !.ev = ClientEvent("send", r, "written")]
  /\ UNCHANGED serverVars

\* close(), disconnect() or ngOnDestroy() called by the application: the
\* socket is dropped with its handlers removed, so no close event follows
close ==
  /\ client.socket # "NULL"
  /\ client' = [disconnect(client) EXCEPT !.ev = ClientEvent("disconnect", 0, "")]
  /\ UNCHANGED serverVars

\* the setTimeout callback of an observer-style request
requestTimeout(r) ==
  /\ r \in client.timeouts
  /\ client' = [client EXCEPT !.timeouts = @ \ {r},
                              !.pendingRequests = @ \ {r},
                              !.outcomes[r] = Append(@, "error"),
                              !.ev = ClientEvent("requestTimeout", r, "")]
  /\ UNCHANGED serverVars

\* request.resolve / request.reject of a pending request
settle(cl, r, isError) ==
  [cl EXCEPT !.timeouts = @ \ {r},
             !.outcomes[r] = IF isError THEN Append(@, "error")
                             ELSE @ \o <<"next", "complete">>]

\* messageSubject.next(message): the subscriptions of authenticate() take
\* the first AUTH_SUCCESS or AUTH_ERROR frame and end; those made by
\* handleOpen then call processMessageQueue
authReply(cl, type) ==
  IF type \notin {"AUTH_SUCCESS", "AUTH_ERROR"} \/ waiting(cl) = 0 THEN cl
  ELSE IF type = "AUTH_ERROR"
    THEN [handleAuthError(cl) EXCEPT !.authWait = [who \in AuthOrigins |-> 0]]
  ELSE LET cl1 == [cl EXCEPT !.isAuthenticated = TRUE,
                             !.authWait = [who \in AuthOrigins |-> 0]]
       IN IF cl.authWait["open"] > 0 THEN processMessageQueue(cl1) ELSE cl1

\* the frames the server can send: a frame that carries the requestId of
\* request r (an ERROR, an AUTH_SUCCESS or AUTH_ERROR, or any other type,
\* "REPLY"), and the frames without requestId
InFrames ==
  [type : {"REPLY", "ERROR", "AUTH_SUCCESS", "AUTH_ERROR"}, requestId : ReqIds]
    \cup [type : {"AUTH_SUCCESS", "AUTH_ERROR", "USER_STATUS"}, requestId : {0}]

\* socket.onmessage = handleMessage of the client
onmessage(m) ==
  /\ isConnected(client)
  /\ m.requestId # 0 => m.requestId \in client.wire
  /\ LET cl1 == [client EXCEPT !.lastHeartbeat = client.clock,
                               !.quietSince = client.clock]
         cl2 == IF m.requestId \in cl1.pendingRequests
                  THEN settle([cl1 EXCEPT !.pendingRequests = @ \ {m.requestId}],
                              m.requestId, m.type = "ERROR")
                ELSE authReply(cl1, m.type)
     IN client' = [cl2 EXCEPT !.ev = ClientEvent("message", m.requestId, m.type)]
  /\ UNCHANGED serverVars

\* authenticate(username) called by the application
login ==
  /\ waiting(client) < MaxAuthSubs
  /\ client' = [authenticate([client EXCEPT !.authToken = TRUE], "manual")
                  EXCEPT !.ev = ClientEvent("login", 0, "")]
  /\ UNCHANGED serverVars

\* timeout(10000) of an authenticate() subscription
authTimeout(who) ==
  /\ client.authWait[who] > 0
  /\ client' = [handleAuthError(client) EXCEPT !.authWait[who] = @ - 1,
                                                !.ev = ClientEvent("authTimeout", 0, who)]
  /\ UNCHANGED serverVars

\* the setInterval callback of startHeartbeat
heartbeat ==
  /\ client.heartbeatAt # NoTimer
  /\ client.heartbeatAt = client.clock
  /\ LET cl1 == [client EXCEPT !.heartbeatAt = client.clock + HEARTBEAT_INTERVAL]
     IN client' =
          IF ~isConnected(cl1)
            THEN [cl1 EXCEPT !.ev = ClientEvent("heartbeat", 0, "skip")]
          ELSE IF cl1.clock - cl1.lastHeartbeat > HEARTBEAT_INTERVAL * 2
            THEN [scheduleReconnect(cl1) EXCEPT !.ev = ClientEvent("heartbeat", 0, "reconnect")]
          ELSE [cl1 EXCEPT !.ev = ClientEvent("heartbeat", 0, "ping")]
  /\ UNCHANGED serverVars

\* one heartbeat interval passes.  The reconnection delay (at most 15.2 s) and
\* the authentication timeout (10 s) are shorter than the interval, so those
\* timers have fired before, and so has a queued close event; the heartbeat
\* fires when it is due.
clientTick ==
  /\ client.clock < ClientStart + MaxClientTicks * HEARTBEAT_INTERVAL
  /\ ~client.closeQueued
  /\ client.heartbeatAt = NoTimer \/ client.clock < client.heartbeatAt
  /\ ~client.reconnectTimeout
  /\ waiting(client) = 0
  /\ client' = [client EXCEPT !.clock = @ + HEARTBEAT_INTERVAL,
                              !.ev = ClientEvent("tick", 0, "")]
  /\ UNCHANGED serverVars

\* ------------------------------------------------------------ specifications
\* Every specification below runs the same server; they differ in the frames
\* the clients send and in the events of the environment (clock, transport
\* errors, bursts of frames) that occur.

\* Outside the heartbeat and the spoofing specification no pong frame shares a
\* chunk with a data frame; in the specifications that state fairness, and in the two with
\* the largest alphabets (typing, history), a chunk holds one data frame.
CloseTails == ChunkTails \ PongTails
\* The specifications end a chunk after MaxChunkFrames data frames.
ChunkFits(tail) == tail \in MoreTails => chunkFrames + 2 <= MaxChunkFrames
SingleTails == ChunkTails \ MoreTails
LoneTails == CloseTails \cap SingleTails

\* The specifications stop handing out message ids at a bound.
Capped(f, n) == f.type = "SEND_MESSAGE" => msgCount < n

Auth(u, t) == [Frame("AUTHENTICATE") EXCEPT !.username = u, !.token = t]
ValidAuth == {Auth(u, u) : u \in Usernames}
BadAuth == {Auth("alice", "bob"), Auth("alice", "")}

\* Members of two rooms exchanging messages; every client sends at most
\* RL_POINTS frames per window of the rate limiter.
ChatInputs == ValidAuth \cup JoinFrames \cup LeaveFrames \cup ChatFrames

Next ==
  \/ \E c \in Conns : Connect(c, "ip1")
  \/ \E c \in Conns, tail \in CloseTails, f \in ChatInputs :
       ChunkFits(tail) /\ Capped(f, MaxMsgs) /\ handleMessage(c, f, TRUE, tail)
  \/ \E c \in Conns : peerClose(c)
  \/ \E c \in Conns : handleDisconnect(c)

Spec == Init /\ [][Next]_vars

\* Typing notifications and the frames that have no handler of their own.
TypingInputs == ValidAuth \cup JoinFrames \cup LeaveFrames \cup TypingFrames \cup OtherFrames

NextTyping ==
  \/ \E c \in Conns : Connect(c, "ip1")
  \/ \E c \in Conns, tail \in LoneTails, f \in TypingInputs : handleMessage(c, f, TRUE, tail)
  \/ \E c \in Conns : peerClose(c)
  \/ \E c \in Conns : handleDisconnect(c)

SpecTyping == Init /\ [][NextTyping]_vars

\* Presence: logins (valid and rejected), joins of one default room, transport
\* errors, closes by the peer, the timer that closes a socket after a rejected
\* login, close events and the clock, in any interleaving.
PresenceInputs == ValidAuth \cup BadAuth \cup {j \in JoinFrames : j.roomId = "general"}

NextPresence ==
  \/ \E c \in Conns : Connect(c, "ip1")
  \/ \E c \in Conns, tail \in CloseTails, f \in PresenceInputs :
       ChunkFits(tail) /\ handleMessage(c, f, TRUE, tail)
  \/ \E c \in Conns : onError(c)
  \/ \E c \in Conns : peerClose(c)
  \/ \E c \in Conns : handleDisconnect(c)
  \/ \E c \in Conns : closeTimeout(c)
  \/ Tick

SpecPresence == Init /\ [][NextPresence]_vars

\* Bursts: frames arrive at any rate from two addresses, so the rate limiter
\* rejects some of them.
BurstInputs == {Auth("alice", "alice")} \cup {f \in JoinFrames : f.roomId = "general"}
                 \cup {f \in LeaveFrames : f.roomId = "r1"}

NextBurst ==
  \/ \E c \in Conns, a \in IPs : Connect(c, a)
  \/ \E c \in Conns, tail \in CloseTails, f \in BurstInputs, expired \in BOOLEAN :
       ChunkFits(tail) /\ handleMessage(c, f, expired, tail)
  \/ \E c \in Conns : peerClose(c)
  \/ \E c \in Conns : handleDisconnect(c)
  \/ \E c \in Conns : terminateTimeout(c)

SpecBurst == Init /\ [][NextBurst]_vars

\* Frames whose payload the schemas of the source would not accept: no payload
\* at all, an empty room id, an empty message.
NoPayload(type) == [Frame(type) EXCEPT !.hasPayload = FALSE]
PayloadInputs ==
  {Auth("alice", "alice")}
    \cup {f \in JoinFrames : f.roomId = "general"}
    \cup {Frame("JOIN_ROOM")}
    \cup {[Frame("SEND_MESSAGE") EXCEPT !.roomId = "general"]}
    \cup {NoPayload(t) : t \in {"AUTHENTICATE", "JOIN_ROOM", "LEAVE_ROOM",
                                "SEND_MESSAGE", "TYPING_STATUS"}}

NextPayload ==
  \/ \E c \in Conns : Connect(c, "ip1")
  \/ \E c \in Conns, tail \in CloseTails, f \in PayloadInputs :
       ChunkFits(tail) /\ Capped(f, MaxMsgs) /\ handleMessage(c, f, TRUE, tail)
  \/ \E c \in Conns : peerClose(c)
  \/ \E c \in Conns : handleDisconnect(c)
  \/ \E c \in Conns : closeTimeout(c)
  \/ \E c \in Conns : terminateTimeout(c)

SpecPayload == Init /\ [][NextPayload]_vars

\* Logins, accepted and rejected.  The timer that handleAuth sets always fires,
\* and a socket on which the server has called close() gets its close event
\* (from the peer's answer, or from the ws library's own close timer).
NextAuthClose ==
  \/ \E c \in Conns : Connect(c, "ip1")
  \/ \E c \in Conns, tail \in LoneTails, f \in ValidAuth \cup BadAuth :
       handleMessage(c, f, TRUE, tail)
  \/ \E c \in Conns : closeTimeout(c)
  \/ \E c \in Conns : peerClose(c)
  \/ \E c \in Conns : handleDisconnect(c)

SpecAuthClose ==
  /\ Init /\ [][NextAuthClose]_vars
  /\ \A c \in Conns : WF_vars(closeTimeout(c)) /\ WF_vars(closeEvent(c))

\* Heartbeat: the clock runs for MaxBeatClock steps, the sweep runs at every
\* multiple of PING_INTERVAL, clients answer pings or not, and send PING and
\* PONG frames.  Timers fire and the close event of a destroyed socket comes.
BeatInputs == {Auth("alice", "alice"), Frame("PING"), Frame("PONG")}

BeatTick == (now + ClockStep) % PING_INTERVAL # 0 /\ Advance(MaxBeatClock)

NextHeartbeat ==
  \/ \E c \in Conns : Connect(c, "ip1")
  \/ \E c \in Conns, tail \in SingleTails, f \in BeatInputs : handleMessage(c, f, TRUE, tail)
  \/ \E c \in Conns : handlePong(c)
  \/ \E c \in Conns : peerClose(c)
  \/ \E c \in Conns : handleDisconnect(c)
  \/ sweep
  \/ BeatTick

SpecHeartbeat ==
  /\ Init /\ [][NextHeartbeat]_vars
  /\ WF_vars(sweep) /\ WF_vars(BeatTick)
  /\ \A c \in Conns : WF_vars(closeEvent(c))

\* A long conversation between two connections: alice fills one room past
\* MAX_MESSAGES_PER_ROOM while bob connects, authenticates and joins at any
\* moment; both may join again to have the history replayed, and both may
\* create and join a second room.
LogRoom == "general"
LogConns == {c \in Conns : c <= 2}
LogAuth(c) == IF c = 1 THEN Auth("alice", "alice") ELSE Auth("bob", "bob")
LogSend == [Frame("SEND_MESSAGE") EXCEPT !.roomId = LogRoom, !.content = "hi"]

NextLog ==
  \/ \E c \in LogConns : Connect(c, "ip1")
  \/ \E c \in LogConns, tail \in {""} : handleMessage(c, LogAuth(c), TRUE, tail)
  \/ \E c \in LogConns, tail \in {""}, f \in JoinFrames : handleMessage(c, f, TRUE, tail)
  \/ \E c \in LogConns, tail \in {""} :
       /\ wsUserId[c] = "alice"
       /\ Capped(LogSend, MAX_MESSAGES_PER_ROOM + LogExtra)
       /\ handleMessage(c, LogSend, TRUE, tail)

SpecLog == Init /\ [][NextLog]_vars

\* Every kind of event next to SEND_MESSAGE: alice and bob log in, join (the
\* default room, and a room that the join creates), leave, ping and disconnect,
\* alice sends and types, the clock advances and the heartbeat sweeps once.
HistoryInputs ==
  JoinFrames
    \cup {f \in LeaveFrames \cup ChatFrames : f.roomId = "general"}
    \cup {f \in TypingFrames : f.roomId = "general" /\ f.isTyping}
    \cup {Frame("PING")}

NextHistory ==
  \/ \E c \in Conns : Connect(c, "ip1")
  \/ \E c \in Conns, tail \in LoneTails : handleMessage(c, LogAuth(c), TRUE, tail)
  \/ \E c \in Conns, tail \in LoneTails, f \in HistoryInputs :
       /\ Capped(f, MaxMsgs)
       /\ f.type \in {"SEND_MESSAGE", "TYPING_STATUS"} => wsUserId[c] # "bob"
       /\ handleMessage(c, f, TRUE, tail)
  \/ \E c \in Conns : peerClose(c)
  \/ \E c \in Conns : handleDisconnect(c)
  \/ sweep
  \/ Tick

SpecHistory == Init /\ [][NextHistory]_vars

\* SEND_MESSAGE frames whose payload names a user, the sender or another one,
\* in a field the server does not know.
SpoofFrames == {[f EXCEPT !.username = u] : f \in ChatFrames, u \in Usernames}
SpoofInputs == ValidAuth \cup {f \in JoinFrames : f.roomId = "general"} \cup SpoofFrames

NextSpoof ==
  \/ \E c \in Conns : Connect(c, "ip1")
  \/ \E c \in Conns, tail \in ChunkTails, f \in SpoofInputs :
       ChunkFits(tail) /\ Capped(f, MaxMsgs) /\ handleMessage(c, f, TRUE, tail)
  \/ \E c \in Conns : peerClose(c)
  \/ \E c \in Conns : handleDisconnect(c)

SpecSpoof == Init /\ [][NextSpoof]_vars

\* The browser client alone: the application's requests and logins, the
\* socket's events, the frames of the server, the timers and the clock.
NextClient ==
  \/ handleOpen
  \/ \E state \in ClosedStates : socketCloses(state)
  \/ handleClose
  \/ reconnectTimer
  \/ \E r \in ReqIds, style \in {"observer", "promise"}, type \in {"AUTHENTICATE", "JOIN_ROOM"} :
       sendMessage(r, style, type)
  \/ close
  \/ \E r \in ReqIds : requestTimeout(r)
  \/ \E m \in InFrames : onmessage(m)
  \/ login
  \/ \E who \in AuthOrigins : authTimeout(who)
  \/ heartbeat
  \/ clientTick

\* an armed timer fires: the request timeouts, the authentication timeouts,
\* the reconnection timer and the heartbeat interval are callbacks of the
\* event loop; time passes; a connection attempt ends, opened or refused; a
\* queued close event is dispatched
ClientFairness ==
  /\ \A r \in ReqIds : WF_vars(requestTimeout(r))
  /\ \A who \in AuthOrigins : WF_vars(authTimeout(who))
  /\ WF_vars(reconnectTimer)
  /\ WF_vars(heartbeat)
  /\ WF_vars(clientTick)
  /\ WF_vars(client.socket = "CONNECTING"
               /\ (handleOpen \/ \E state \in ClosedStates : socketCloses(state)))
  /\ WF_vars(handleClose)

SpecClient == Init /\ [][NextClient]_vars /\ ClientFairness

\* ------------------------------------------------------------------- claims
ErrorTo(c, code) == [Out(c, "ERROR") EXCEPT !.code = code]
RoomActions == {"JOIN_ROOM", "LEAVE_ROOM", "SEND_MESSAGE", "TYPING_STATUS"}

\* The sender's socket is open when the continuation of handleMessage runs: it
\* was open when the frame arrived and no close frame followed it in the chunk.
OpenAtReply == rs[ev'.conn] = "OPEN" /\ ev'.tail \notin ClosingTails

\* C1 (as claimed): a frame of any type but AUTHENTICATE that reaches the switch
\* of handleMessage on an open, unauthenticated connection is answered with
\* exactly ERROR UNAUTHORIZED to the sender.
C1_UnauthenticatedFrameIsRefused ==
  (/\ ev.kind = "message"
   /\ ev.frame.type # "AUTHENTICATE"
   /\ wsUserId[ev.conn] = NoUser
   /\ rs[ev.conn] = "OPEN")
  => sent = {ErrorTo(ev.conn, "UNAUTHORIZED")}

\* C2 (as claimed): a JOIN_ROOM, LEAVE_ROOM, SEND_MESSAGE or TYPING_STATUS
\* frame received on an unauthenticated connection changes no room, history or
\* typing set, writes to no other socket, and neither closes the sender's
\* socket nor schedules its termination.
C2_UnauthenticatedFrameHasNoEffect ==
  [][(/\ ev'.kind \in {"message", "rejected"}
      /\ ev'.frame.type \in RoomActions
      /\ ev'.tail \notin ClosingTails
      /\ wsUserId[ev'.conn] = NoUser)
     => (/\ rooms' = rooms
         /\ messageHistory' = messageHistory
         /\ typingUsers' = typingUsers
         /\ \A o \in sent' : o.to = ev'.conn
         /\ rs'[ev'.conn] = rs[ev'.conn]
         /\ ev'.conn \in termTimers' => ev'.conn \in termTimers
         /\ ev'.conn \in closeTimers' => ev'.conn \in closeTimers)]_vars

\* C3 (as claimed): after a SEND_MESSAGE of a member of the room, NEW_MESSAGE
\* with the appended message was written to every open socket of every
\* member, the sending socket included.
C3_NewMessageReachesEveryMember ==
  (/\ ev.kind = "message"
   /\ ev.frame.type = "SEND_MESSAGE"
   /\ wsUserId[ev.conn] # NoUser
   /\ Has(rooms, ev.frame.roomId)
   /\ wsUserId[ev.conn] \in rooms[ev.frame.roomId])
  => \A d \in Conns :
       (rs[d] = "OPEN" /\ wsUserId[d] \in rooms[ev.frame.roomId])
       => \E o \in sent : /\ o.to = d
                          /\ o.type = "NEW_MESSAGE"
                          /\ o.room = ev.frame.roomId
                          /\ o.msgId = msgCount

\* C4: no TYPING_UPDATE is written to a socket that is authenticated as the
\* user the update is about.
C4_NoTypingEcho ==
  \A o \in sent : o.type = "TYPING_UPDATE" => wsUserId[o.to] # o.userId

\* A TYPING_STATUS of a room member was handled and another member got the update.
C4_Witness ==
  /\ ev.kind = "message"
  /\ ev.frame.type = "TYPING_STATUS"
  /\ \E o \in sent : /\ o.type = "TYPING_UPDATE"
                     /\ o.userId = wsUserId[ev.conn]
                     /\ o.to # ev.conn

\* C5: the user of an open authenticated connection is never offline.
C5_OpenConnectionIsNotOffline ==
  \A c \in Conns :
    (rs[c] = "OPEN" /\ wsUserId[c] # NoUser) => users[wsUserId[c]].status # "offline"

\* An older socket of a user has closed while a newer socket of the same user is
\* open, and the user is online.
C5_Witness ==
  \E c, d \in Conns :
    /\ c # d
    /\ rs[c] = "CLOSED"
    /\ rs[d] = "OPEN"
    /\ wsUserId[c] # NoUser
    /\ wsUserId[c] = wsUserId[d]
    /\ users[wsUserId[d]].status = "online"

\* C6: when a socket of user U closes while another registered socket carries
\* U, U's record is unchanged and no USER_STATUS_CHANGED offline is written; when
\* no other registered socket carries U, U becomes offline with lastSeen = now
\* and USER_STATUS_CHANGED offline is written, for every room U is a member of,
\* to exactly the open sockets of the other members of that room.
C6_DisconnectUpdatesPresence ==
  [][(ev'.kind = "close" /\ wsUserId[ev'.conn] # NoUser)
     => LET c == ev'.conn
            U == wsUserId[c]
        IN IF \E d \in clients \ {c} : wsUserId[d] = U
           THEN /\ users' = users
                /\ ~\E o \in sent' : o.type = "USER_STATUS_CHANGED" /\ o.status = "offline"
           ELSE /\ users'[U] = [status |-> "offline", lastSeen |-> now]
                /\ \A V \in DOMAIN users \ {U} : users'[V] = users[V]
                /\ sent' = {[Out(d, "USER_STATUS_CHANGED") EXCEPT
                               !.room = R, !.userId = U, !.status = "offline"] :
                              <<R, d>> \in {p \in (DOMAIN rooms) \X (Conns \ {c}) :
                                              /\ U \in rooms[p[1]]
                                              /\ rs[p[2]] = "OPEN"
                                              /\ wsUserId[p[2]] \in rooms[p[1]] \ {U}}}]_vars

\* The last socket of a user closed after the clock advanced, and a member of a
\* room of that user was told.
C6_Witness ==
  /\ ev.kind = "close"
  /\ now > 0
  /\ \E o \in sent : /\ o.type = "USER_STATUS_CHANGED"
                     /\ o.status = "offline"
                     /\ o.userId = wsUserId[ev.conn]
                     /\ users[o.userId] = [status |-> "offline", lastSeen |-> now]

IsLogin(e) == e.kind = "message" /\ e.frame.type = "AUTHENTICATE" /\ e.frame.hasPayload
                /\ validCredential(e.frame.username, e.frame.token)

\* C7 (as claimed): when a connection authenticates as a user that an open,
\* registered connection already carries, the older connection stays open and
\* registered (the newer connection being open when its frame is handled).
C7_OlderConnectionStays ==
  [][(IsLogin(ev') /\ OpenAtReply)
     => \A d \in Conns \ {ev'.conn} :
          (rs[d] = "OPEN" /\ d \in clients /\ wsUserId[d] = ev'.frame.username)
          => (rs'[d] = "OPEN" /\ d \in clients')]_vars

\* C8 (as claimed): a user whose status is online has a connection, authenticated
\* as that user, whose close has not been handled yet.
C8_OnlineHasConnection ==
  \A U \in DOMAIN users :
    users[U].status = "online"
    => \E c \in Conns : wsUserId[c] = U /\ rs[c] \in {"OPEN", "CLOSING", "TERMINATED"}

\* C9 (as claimed): once a connection has a userId, no step changes it.
C9_UserIdSetOnce ==
  [][\A c \in Conns : wsUserId[c] # NoUser => wsUserId'[c] = wsUserId[c]]_vars

\* C10 (as claimed): a connection whose close has been handled is not in the
\* registry, and its user, unless another open connection carries it, is a
\* member of no room.
C10_ClosedConnectionIsForgotten ==
  \A c \in Conns :
    rs[c] = "CLOSED"
    => /\ c \notin clients
       /\ (/\ wsUserId[c] # NoUser
           /\ ~\E d \in Conns \ {c} : wsUserId[d] = wsUserId[c] /\ rs[d] = "OPEN")
          => \A R \in DOMAIN rooms : wsUserId[c] \notin rooms[R]

\* C11 (as claimed): when the last member of a room that is not a default room
\* leaves it, the room, its message history and its typing set are deleted.
C11_EmptyRoomIsDeleted ==
  [][(/\ ev'.kind = "message"
      /\ ev'.frame.type = "LEAVE_ROOM"
      /\ ev'.frame.hasPayload
      /\ ev'.frame.roomId \notin DefaultRooms
      /\ Has(rooms, ev'.frame.roomId)
      /\ rooms[ev'.frame.roomId] = {wsUserId[ev'.conn]})
     => (/\ ~Has(rooms', ev'.frame.roomId)
         /\ ~Has(messageHistory', ev'.frame.roomId)
         /\ ~Has(typingUsers', ev'.frame.roomId))]_vars

\* C12: a JOIN_ROOM of a user who is already a member of the room leaves the
\* members of every room unchanged and writes no USER_JOINED; the sender, if its
\* socket is open, gets ROOM_JOINED.
C12_RejoinIsIdempotent ==
  [][(/\ ev'.kind = "message"
      /\ ev'.frame.type = "JOIN_ROOM"
      /\ ev'.frame.hasPayload
      /\ wsUserId[ev'.conn] # NoUser
      /\ Has(rooms, ev'.frame.roomId)
      /\ wsUserId[ev'.conn] \in rooms[ev'.frame.roomId])
     => (/\ rooms' = rooms
         /\ ~\E o \in sent' : o.type = "USER_JOINED"
         /\ OpenAtReply
            => \E o \in sent' : /\ o.to = ev'.conn
                                /\ o.type = "ROOM_JOINED"
                                /\ o.room = ev'.frame.roomId)]_vars

\* A member joined its room again while another member's socket was open: only
\* ROOM_JOINED was written, to the sender.
C12_Witness ==
  /\ ev.kind = "message"
  /\ ev.frame.type = "JOIN_ROOM"
  /\ rs[ev.conn] = "OPEN"
  /\ wsUserId[ev.conn] # NoUser
  /\ Has(rooms, ev.frame.roomId)
  /\ \E d \in Conns \ {ev.conn} : /\ rs[d] = "OPEN"
                                  /\ wsUserId[d] # wsUserId[ev.conn]
                                  /\ wsUserId[d] \in rooms[ev.frame.roomId]
  /\ \A o \in sent : o.to = ev.conn /\ o.type = "ROOM_JOINED"
  /\ sent # {}

\* C13: no room's history is longer than MAX_MESSAGES_PER_ROOM; in the long
\* conversation, where every message is sent to LogRoom, the history of LogRoom
\* is exactly the min(msgCount, MAX_MESSAGES_PER_ROOM) newest messages in the
\* order they were sent: after MAX + k messages the k oldest are gone.
C13_HistoryKeepsNewestMax ==
  /\ \A R \in DOMAIN messageHistory : Len(messageHistory[R]) <= MAX_MESSAGES_PER_ROOM
  /\ LET h == messageHistory[LogRoom]
     IN /\ Len(h) = IF msgCount <= MAX_MESSAGES_PER_ROOM THEN msgCount
                    ELSE MAX_MESSAGES_PER_ROOM
        /\ \A i \in 1..Len(h) : h[i].id = msgCount - Len(h) + i

\* MAX_MESSAGES_PER_ROOM + LogExtra messages were sent to the room: the history
\* is full and starts after the LogExtra oldest.
C13_Witness ==
  /\ msgCount = MAX_MESSAGES_PER_ROOM + LogExtra
  /\ Len(messageHistory[LogRoom]) = MAX_MESSAGES_PER_ROOM
  /\ messageHistory[LogRoom][1].id = LogExtra + 1

\* C14: the messages of every ROOM_JOINED are in the order in which the server
\* appended them (ids are handed out in append order), and so is every
\* room's history.
C14_ReplayInAppendOrder ==
  /\ \A o \in sent :
       o.type = "ROOM_JOINED"
       => \A i \in 1..(Len(o.messages) - 1) : o.messages[i].id < o.messages[i + 1].id
  /\ \A R \in DOMAIN messageHistory :
       \A i \in 1..(Len(messageHistory[R]) - 1) :
         messageHistory[R][i].id < messageHistory[R][i + 1].id

\* bob joined the room after messages had been evicted from its history and
\* got a replay of HISTORY_TAIL messages.
C14_Witness ==
  /\ ev.kind = "message"
  /\ ev.frame.type = "JOIN_ROOM"
  /\ wsUserId[ev.conn] = "bob"
  /\ msgCount > MAX_MESSAGES_PER_ROOM
  /\ \E o \in sent : /\ o.type = "ROOM_JOINED"
                     /\ o.to = ev.conn
                     /\ Len(o.messages) = HISTORY_TAIL

\* C15: a JOIN_ROOM of an authenticated user U on an open socket c writes
\* exactly: ROOM_JOINED to c, whose members contain U and whose messages are the
\* newest min(HISTORY_TAIL, n) of the n messages of the room's history, oldest
\* first (none for a room the join creates); and, when U was not a member yet,
\* USER_JOINED to the open sockets of the other members.
C15_JoinReplies ==
  [][(/\ ev'.kind = "message"
      /\ ev'.frame.type = "JOIN_ROOM"
      /\ ev'.frame.hasPayload
      /\ wsUserId[ev'.conn] # NoUser
      /\ OpenAtReply)
     => LET c == ev'.conn
            U == wsUserId[c]
            R == ev'.frame.roomId
            h == IF Has(messageHistory, R) THEN messageHistory[R] ELSE <<>>
            n == Len(h)
            k == IF n < HISTORY_TAIL THEN n ELSE HISTORY_TAIL
            before == IF Has(rooms, R) THEN rooms[R] ELSE {}
            toSender == {o \in sent' : o.to = c}
            toOthers == {o \in sent' : o.to # c}
        IN /\ \E o \in toSender :
                /\ toSender = {o}
                /\ o.type = "ROOM_JOINED"
                /\ o.room = R
                /\ U \in o.members
                /\ o.members = rooms'[R]
                /\ o.messages = [i \in 1..k |-> h[n - k + i]]
           /\ messageHistory'[R] = h
           /\ toOthers = IF U \in before THEN {}
                         ELSE {[Out(d, "USER_JOINED") EXCEPT !.room = R, !.userId = U] :
                                 d \in {e \in Conns \ {c} : /\ rs[e] = "OPEN"
                                                            /\ wsUserId[e] \in before \ {U}}}]_vars

\* alice, already a member of a room with more than HISTORY_TAIL messages, saw
\* bob join: bob got ROOM_JOINED with HISTORY_TAIL messages ending with the
\* newest one, alice got USER_JOINED.
C15_Witness ==
  /\ ev.kind = "message"
  /\ ev.frame.type = "JOIN_ROOM"
  /\ msgCount > HISTORY_TAIL
  /\ \E o \in sent : /\ o.type = "ROOM_JOINED"
                     /\ o.to = ev.conn
                     /\ Len(o.messages) = HISTORY_TAIL
                     /\ o.messages[HISTORY_TAIL].id = msgCount
  /\ \E o \in sent : /\ o.type = "USER_JOINED"
                     /\ o.to # ev.conn
                     /\ wsUserId[o.to] = "alice"
                     /\ o.userId = wsUserId[ev.conn]

\* C16 (as claimed): a SEND_MESSAGE or LEAVE_ROOM of an authenticated user, on
\* an open socket, for a room that does not exist or that the user is not a
\* member of, writes exactly one frame, an ERROR to the sender, changes no room,
\* history or typing set, creates no message, and neither closes the sender's
\* socket nor schedules its closing.
C16_WrongRoomIsRefused ==
  [][(/\ ev'.kind \in {"message", "rejected"}
      /\ ev'.frame.type \in {"SEND_MESSAGE", "LEAVE_ROOM"}
      /\ ev'.frame.hasPayload
      /\ wsUserId[ev'.conn] # NoUser
      /\ OpenAtReply
      /\ \/ ~Has(rooms, ev'.frame.roomId)
         \/ wsUserId[ev'.conn] \notin rooms[ev'.frame.roomId])
     => (/\ \E o \in sent' : sent' = {o} /\ o.to = ev'.conn /\ o.type = "ERROR"
         /\ rooms' = rooms
         /\ messageHistory' = messageHistory
         /\ typingUsers' = typingUsers
         /\ msgCount' = msgCount
         /\ rs' = rs
         /\ clients' = clients
         /\ closeTimers' = closeTimers
         /\ termTimers' = termTimers)]_vars

\* C17 (as claimed): a frame that parseMessage cannot parse, received on an
\* open socket, is answered with ERROR INVALID_MESSAGE to the sender.
C17_MalformedFrameGetsError ==
  (ev.kind = "unparsed" /\ rs[ev.conn] = "OPEN")
  => sent = {ErrorTo(ev.conn, "INVALID_MESSAGE")}

\* The payload schemas of the source (AuthMessageSchema .. TypingStatusSchema):
\* the frames of a known action whose payload they do not accept.
InvalidPayload(f) ==
  /\ f.type \in {"AUTHENTICATE", "JOIN_ROOM", "LEAVE_ROOM", "SEND_MESSAGE", "TYPING_STATUS"}
  /\ \/ ~f.hasPayload
     \/ f.type = "AUTHENTICATE" /\ (f.username = "" \/ f.token = "")
     \/ f.type # "AUTHENTICATE" /\ f.roomId = ""
     \/ f.type = "SEND_MESSAGE" /\ f.content = ""

\* C18 (as claimed): a frame of a known action whose payload is missing or does
\* not match the action's schema, received on the open socket of an
\* authenticated user, is answered with an ERROR frame to the sender, writes to
\* no other socket, changes no room, history, typing set or user, creates no
\* message, and neither closes the socket nor schedules its closing.
C18_InvalidPayloadIsRejected ==
  [][(/\ ev'.kind = "message"
      /\ InvalidPayload(ev'.frame)
      /\ wsUserId[ev'.conn] # NoUser
      /\ OpenAtReply)
     => (/\ \E o \in sent' : o.to = ev'.conn /\ o.type = "ERROR"
         /\ \A o \in sent' : o.to = ev'.conn
         /\ rooms' = rooms
         /\ messageHistory' = messageHistory
         /\ typingUsers' = typingUsers
         /\ users' = users
         /\ msgCount' = msgCount
         /\ rs' = rs
         /\ closeTimers' = closeTimers
         /\ termTimers' = termTimers)]_vars

\* C19 (as claimed): a frame that the rate limiter rejects, received on an open
\* socket, is answered with exactly ERROR RATE_LIMIT_EXCEEDED to the sender, has
\* no effect on any store, and neither closes the socket nor schedules its
\* closing.
C19_RejectedFrameKeepsConnection ==
  [][(ev'.kind = "rejected" /\ OpenAtReply)
     => (/\ sent' = {ErrorTo(ev'.conn, "RATE_LIMIT_EXCEEDED")}
         /\ rooms' = rooms
         /\ messageHistory' = messageHistory
         /\ typingUsers' = typingUsers
         /\ users' = users
         /\ wsUserId' = wsUserId
         /\ clients' = clients
         /\ rs' = rs
         /\ closeTimers' = closeTimers
         /\ termTimers' = termTimers)]_vars

\* C20 (as claimed): a frame is rejected by the rate limiter only when its own
\* connection has sent more than RL_POINTS frames in the current window.
C20_RejectedOnlyForOwnFrames ==
  ev.kind = "rejected" => ownFrames[ev.conn] > RL_POINTS
\* ---------------------------------------------------------------- C21 .. C30
IsRejectedLogin(e) == e.kind = "message" /\ e.frame.type = "AUTHENTICATE" /\ ~IsLogin(e)

\* C21: an AUTHENTICATE whose credential is rejected is answered with exactly
\* ERROR AUTH_ERROR to the (open) sender, changes no connection's userId and no
\* user record, and the connection is eventually closed.
C21_RejectedLoginClosesConnection ==
  /\ [][(IsRejectedLogin(ev') /\ OpenAtReply)
         => /\ sent' = {ErrorTo(ev'.conn, "AUTH_ERROR")}
            /\ wsUserId' = wsUserId
            /\ users' = users]_vars
  /\ \A c \in Conns : (IsRejectedLogin(ev) /\ ev.conn = c) ~> (rs[c] = "CLOSED")

\* the timer set by a rejected login has just closed an open connection
C21_Witness == ev.kind = "closeTimeout" /\ rs[ev.conn] = "CLOSING"

\* C22 (as claimed): handling a successful AUTHENTICATE writes frames to the
\* authenticating connection only.
C22_LoginRepliesToSenderOnly ==
  IsLogin(ev) => \A o \in sent : o.to = ev.conn

\* C23 (as claimed): the sweep terminates an open, registered connection only
\* if its last liveness time is more than two intervals old; every other such
\* connection stays open and is sent a ping; a pong sets the liveness time to now.
C23_SweepTerminatesOnlyStale ==
  [][/\ ev'.kind = "sweep"
        => \A c \in clients :
             isOpen(rs[c])
             => IF now' - lastPing[c] > 2 * PING_INTERVAL
                THEN rs'[c] = "TERMINATED"
                ELSE isOpen(rs'[c]) /\ Out(c, "ping") \in sent'
     /\ ev'.kind = "pong" => lastPing'[ev'.conn] = now']_vars

\* C24: an open connection that answers no ping is terminated by the second
\* sweep at the latest (the first sweep that finds it marks it, the next one
\* terminates it), the close event of a terminated connection removes it from
\* the registry and marks its user offline unless another registered connection
\* carries the user, and every connection that is open while two sweeps are
\* still to come either answers a ping or ends closed and unregistered.
C24_SilentConnectionIsTerminated ==
  /\ [][ev'.kind = "sweep"
        => \A c \in clients :
             isOpen(rs[c])
             => IF isAlive[c] /\ now' - lastPing[c] <= STALE_AFTER
                THEN isOpen(rs'[c]) /\ ~isAlive'[c]
                ELSE rs'[c] = "TERMINATED"]_vars
  /\ [][(ev'.kind = "close" /\ rs[ev'.conn] = "TERMINATED")
        => LET c == ev'.conn
               U == wsUserId[c]
           IN /\ rs'[c] = "CLOSED"
              /\ c \notin clients'
              /\ (U # NoUser /\ ~\E d \in clients \ {c} : wsUserId[d] = U)
                 => users'[U].status = "offline"]_vars
  /\ \A c \in Conns :
       (rs[c] = "OPEN" /\ now + 2 * PING_INTERVAL <= MaxBeatClock * ClockStep)
       ~> \/ (ev.kind = "pong" \/ ev.tail \in PongTails) /\ ev.conn = c
          \/ rs[c] = "CLOSED" /\ c \notin clients

\* the sweep has terminated a registered connection of a user, which did not
\* answer the previous ping and whose staleness is within two intervals
C24_Witness ==
  /\ ev.kind = "sweep"
  /\ \E c \in clients : /\ rs[c] = "TERMINATED"
                        /\ ~isAlive[c]
                        /\ wsUserId[c] # NoUser
                        /\ now - lastPing[c] <= STALE_AFTER

\* C25 (as claimed): a PING frame that reaches the switch of handleMessage on an
\* open connection, authenticated or not, sets the connection's liveness
\* timestamp to the current time and is answered with exactly PONG to the sender.
C25_PingTouchesLiveness ==
  (/\ ev.kind = "message"
   /\ ev.frame.type = "PING"
   /\ ev.tail = ""
   /\ isOpen(rs[ev.conn]))
  => /\ lastPing[ev.conn] = now
     /\ sent = {Out(ev.conn, "PONG")}

\* C26 (as claimed): when the close event of a connection is handled while its
\* user is in the typing set of a room R, the user is removed from that set and
\* TYPING_UPDATE with isTyping false is written to the open connections of the
\* other members of R.
C26_CloseClearsTyping ==
  [][ev'.kind = "close"
     => LET c == ev'.conn
            U == wsUserId[c]
        IN \A R \in DOMAIN typingUsers :
             (U # NoUser /\ U \in typingUsers[R])
             => /\ U \notin typingUsers'[R]
                /\ \A d \in clients \ {c} :
                     (isOpen(rs[d]) /\ wsUserId[d] # U /\ Has(rooms, R)
                      /\ wsUserId[d] \in rooms[R])
                     => \E o \in sent' : /\ o.to = d
                                         /\ o.type = "TYPING_UPDATE"
                                         /\ o.room = R
                                         /\ o.userId = U
                                         /\ ~o.isTyping]_vars

\* C27 (as claimed): the typing set of a room contains only members of the room.
C27_TypersAreMembers ==
  \A R \in DOMAIN typingUsers : Has(rooms, R) /\ typingUsers[R] \subseteq rooms[R]

\* C28 (as claimed): a handler that runs after its connection has begun to
\* close (the close frame stood behind the frame in the same chunk) is ignored:
\* it does not set the connection's userId, does not put the connection into
\* the registry and does not mark any user online; and whenever no close event
\* is outstanding every registered connection is open.
C28_LateHandlerIsIgnored ==
  /\ [][(ev'.kind = "message" /\ ev'.tail \in ClosingTails)
        => LET c == ev'.conn
           IN /\ wsUserId'[c] = wsUserId[c]
              /\ c \in clients' => c \in clients
              /\ \A U \in DOMAIN users' :
                   users'[U].status = "online"
                   => (Has(users, U) /\ users[U].status = "online")]_vars
  /\ []((\A c \in Conns : rs[c] \notin {"CLOSING", "TERMINATED"})
        => \A c \in clients : isOpen(rs[c]))

\* the messages stored in all rooms, as <<room, position>> pairs
Stored == {p \in (DOMAIN messageHistory) \X (1..MaxMsgs) : p[2] <= Len(messageHistory[p[1]])}

\* C29: SEND_MESSAGE frames of any connections, handled in any interleaving:
\* every frame of a member of the room appends exactly one message at the end
\* of the room's history and changes no other history, no two stored messages
\* have the same id, and within a room the messages stand in the order in which
\* their frames were handled.
C29_MessagesAppendInArrivalOrder ==
  /\ [](\A p, q \in Stored :
          messageHistory[p[1]][p[2]].id = messageHistory[q[1]][q[2]].id => p = q)
  /\ [](\A R \in DOMAIN messageHistory : \A i, j \in 1..Len(messageHistory[R]) :
          i < j => messageHistory[R][i].id < messageHistory[R][j].id)
  /\ [][(/\ ev'.kind = "message"
         /\ ev'.frame.type = "SEND_MESSAGE"
         /\ wsUserId[ev'.conn] # NoUser
         /\ Has(rooms, ev'.frame.roomId)
         /\ wsUserId[ev'.conn] \in rooms[ev'.frame.roomId])
        => LET R == ev'.frame.roomId
               old == IF Has(messageHistory, R) THEN messageHistory[R] ELSE <<>>
           IN /\ Len(messageHistory'[R]) = Len(old) + 1
              /\ SubSeq(messageHistory'[R], 1, Len(old)) = old
              /\ messageHistory'[R][Len(old) + 1].userId = wsUserId[ev'.conn]
              /\ messageHistory'[R][Len(old) + 1].content = ev'.frame.content
              /\ \A Q \in DOMAIN messageHistory \ {R} :
                   messageHistory'[Q] = messageHistory[Q]]_vars

\* two connections of different users have each sent a message to the same room
C29_Witness ==
  \E R \in DOMAIN messageHistory :
    /\ Len(messageHistory[R]) = 2
    /\ messageHistory[R][1].userId # messageHistory[R][2].userId
    /\ ev.kind = "message"
    /\ ev.frame.type = "SEND_MESSAGE"

\* the handler of the frame throws: the frame has no payload and the handler
\* reaches the statement that reads it
HandlerThrows(e) ==
  /\ e.kind = "message"
  /\ e.frame.type \in RoomActions \cup {"AUTHENTICATE"}
  /\ ~e.frame.hasPayload
  /\ e.frame.type # "AUTHENTICATE" => wsUserId[e.conn] # NoUser

\* C30 (as claimed): when the handler of a frame of an open connection throws,
\* exactly the generic error is written to that connection and that connection
\* alone is set to be terminated.
C30_HandlerExceptionTerminatesSender ==
  (HandlerThrows(ev) /\ isOpen(rs[ev.conn]))
  => /\ sent = {ErrorTo(ev.conn, "INTERNAL_ERROR")}
     /\ ev.conn \in termTimers

\* ---------------------------------------------------------------- C31 .. C39

\* C31: a LEAVE_ROOM of an authenticated member U of room R removes U from the
\* members of R and changes no other room; USER_LEFT is written to exactly the
\* open connections of the members that remain in R, and nothing is written to
\* a connection of U.
C31_LeaveNotifiesRemainingMembers ==
  [][(/\ ev'.kind = "message"
      /\ ev'.frame.type = "LEAVE_ROOM"
      /\ ev'.frame.hasPayload
      /\ wsUserId[ev'.conn] # NoUser
      /\ Has(rooms, ev'.frame.roomId)
      /\ wsUserId[ev'.conn] \in rooms[ev'.frame.roomId])
     => LET R == ev'.frame.roomId
            U == wsUserId[ev'.conn]
        IN /\ rooms' = [rooms EXCEPT ![R] = @ \ {U}]
           /\ sent' = {[Out(d, "USER_LEFT") EXCEPT !.room = R, !.userId = U] :
                         d \in {x \in Conns : /\ rs[x] = "OPEN"
                                              /\ wsUserId[x] \in rooms[R] \ {U}}}
           /\ \A o \in sent' : wsUserId[o.to] # U]_vars

\* a member has left a room and a remaining member was told
C31_Witness ==
  /\ ev.kind = "message"
  /\ ev.frame.type = "LEAVE_ROOM"
  /\ \E o \in sent : /\ o.type = "USER_LEFT"
                     /\ o.userId = wsUserId[ev.conn]
                     /\ o.to # ev.conn
                     /\ wsUserId[ev.conn] \notin rooms[o.room]

\* C34: a step changes the history of a room only when it handles a SEND_MESSAGE
\* of a member of that room, and then the new history is a tail of the old one
\* followed by one new message with a fresh id; every other step (AUTHENTICATE,
\* JOIN_ROOM, LEAVE_ROOM, TYPING_STATUS, PING, the sweep, a close event) leaves
\* the history of every existing room as it is, so stored messages never change.
C34_HistoryIsAppendOnly ==
  [][\A R \in DOMAIN messageHistory :
       /\ Has(messageHistory', R)
       /\ LET old == messageHistory[R]
              new == messageHistory'[R]
          IN \/ new = old
             \/ /\ ev'.kind = "message"
                /\ ev'.frame.type = "SEND_MESSAGE"
                /\ ev'.frame.roomId = R
                /\ wsUserId[ev'.conn] # NoUser
                /\ Has(rooms, R)
                /\ wsUserId[ev'.conn] \in rooms[R]
                /\ Len(new) >= 1
                /\ Len(new) <= Len(old) + 1
                /\ \A i \in 1..(Len(new) - 1) : new[i] = old[Len(old) + 1 - Len(new) + i]
                /\ \A i \in 1..Len(old) : old[i].id # new[Len(new)].id]_vars

\* the heartbeat has swept while the default room held messages and a room
\* created by a join existed
C34_Witness ==
  /\ ev.kind = "sweep"
  /\ Len(messageHistory["general"]) = MaxMsgs
  /\ Has(messageHistory, "r1")

\* C35: the message that a SEND_MESSAGE of a member stores and broadcasts has
\* the userId bound to the sending connection, whatever user the payload names:
\* the same frame with any other user name in its payload yields the same
\* message.  (The answer to a pong frame of the same chunk is no part of it.)
C35_SenderIsConnectionIdentity ==
  [][(/\ ev'.kind = "message"
      /\ ev'.frame.type = "SEND_MESSAGE"
      /\ wsUserId[ev'.conn] # NoUser
      /\ Has(rooms, ev'.frame.roomId)
      /\ wsUserId[ev'.conn] \in rooms[ev'.frame.roomId])
     => LET c == ev'.conn
            f == ev'.frame
            h == messageHistory'[f.roomId]
        IN /\ h[Len(h)] = createMessage(c, f)
           /\ h[Len(h)].userId = wsUserId[c]
           /\ \A u \in Usernames \cup {""} :
                createMessage(c, [f EXCEPT !.username = u]) = createMessage(c, f)
           /\ \A o \in sent' : o.type # "PONG" =>
                o.type = "NEW_MESSAGE" /\ o.userId = wsUserId[c]]_vars

\* a member has sent a message whose payload names the other user, and the
\* other user, a member too, received it under the sender's identity
C35_Witness ==
  /\ ev.kind = "message"
  /\ ev.frame.type = "SEND_MESSAGE"
  /\ wsUserId[ev.conn] # NoUser
  /\ ev.frame.username # wsUserId[ev.conn]
  /\ \E o \in sent : /\ o.type = "NEW_MESSAGE"
                     /\ o.to # ev.conn
                     /\ o.userId = wsUserId[ev.conn]
                     /\ wsUserId[o.to] = ev.frame.username

RoomEvents == {"NEW_MESSAGE", "TYPING_UPDATE", "USER_JOINED", "USER_LEFT",
               "USER_STATUS_CHANGED"}

\* C36: every room event written by a step goes to an open connection that is
\* authenticated as a member of the event's room (members as they are when the
\* event is fanned out).
C36_RoomEventsReachMembersOnly ==
  \A o \in sent :
    o.type \in RoomEvents
    => /\ rs[o.to] = "OPEN"
       /\ wsUserId[o.to] # NoUser
       /\ Has(rooms, o.room)
       /\ wsUserId[o.to] \in rooms[o.room]

\* a room event was fanned out while another connection was open and not
\* authenticated
C36_Witness ==
  /\ \E o \in sent : o.type \in RoomEvents
  /\ \E d \in Conns : rs[d] = "OPEN" /\ wsUserId[d] = NoUser

\* C37: NEW_MESSAGE frames are written only by the step that appends the
\* message: each carries the id of the message which that step put at the end
\* of the room's history, an id larger than that of every message stored
\* before, and goes at most once to a connection.  The frames a connection
\* receives are therefore in the order of the appends.
C37_DeliveriesFollowAppendOrder ==
  [][\A o \in sent' :
       o.type = "NEW_MESSAGE"
       => /\ ev'.kind = "message"
          /\ ev'.frame.type = "SEND_MESSAGE"
          /\ o.room = ev'.frame.roomId
          /\ LET h == messageHistory'[o.room]
             IN /\ Len(h) >= 1
                /\ o.msgId = h[Len(h)].id
                /\ \A i \in 1..(Len(h) - 1) : h[i].id < o.msgId
          /\ \A R \in DOMAIN messageHistory : \A i \in 1..Len(messageHistory[R]) :
               messageHistory[R][i].id < o.msgId
          /\ \A p \in sent' : (p.type = "NEW_MESSAGE" /\ p.to = o.to) => p = o]_vars

\* the second of two messages of one sender in one room has been delivered to
\* the connection of another member
C37_Witness ==
  /\ ev.kind = "message"
  /\ ev.frame.type = "SEND_MESSAGE"
  /\ Has(messageHistory, ev.frame.roomId)
  /\ LET h == messageHistory[ev.frame.roomId]
     IN /\ Len(h) = 2
        /\ h[1].userId = wsUserId[ev.conn]
        /\ h[2].userId = wsUserId[ev.conn]
        /\ \E o \in sent : /\ o.type = "NEW_MESSAGE"
                           /\ o.msgId = h[2].id
                           /\ o.to # ev.conn

\* C38: no two registered connections carry the same userId, in any state; the
\* step that binds a connection to a user sends DUPLICATE_CONNECTION to every
\* open registered connection that carried the user, terminates it and takes it
\* out of the registry.
C38_OneRegisteredConnectionPerUser ==
  /\ [](\A c, d \in clients : (c # d /\ wsUserId[c] # NoUser) => wsUserId[c] # wsUserId[d])
  /\ [][\A c \in Conns :
          (wsUserId'[c] # wsUserId[c] \/ (IsLogin(ev') /\ ev'.conn = c))
          => /\ IsLogin(ev') /\ ev'.conn = c
             /\ wsUserId'[c] = ev'.frame.username
             /\ \A d \in clients \ {c} :
                  wsUserId[d] = wsUserId'[c]
                  => /\ d \notin clients'
                     /\ rs'[d] \in {"TERMINATED", "CLOSED"}
                     /\ isOpen(rs[d]) => ErrorTo(d, "DUPLICATE_CONNECTION") \in sent']_vars

\* a connection that was bound to one user has authenticated as the user of the
\* other registered connection, which was terminated and unregistered
C38_Witness ==
  /\ IsLogin(ev)
  /\ clients = {ev.conn}
  /\ \E d \in Conns \ {ev.conn} :
       /\ rs[d] = "TERMINATED"
       /\ wsUserId[d] = wsUserId[ev.conn]
  /\ \E U \in DOMAIN users : U # wsUserId[ev.conn] /\ users[U].status = "online"

\* C32 (as claimed): a message passed to sendMessage while the socket is not
\* connected is put in the message queue, a close event keeps the queue, and
\* every queued message is eventually written to a socket.
C32_OfflineMessageIsQueuedAndDelivered ==
  /\ [][\A r \in ReqIds :
          (client'.ev.kind = "send" /\ client'.ev.req = r /\ ~isConnected(client))
            => r \in queued(client')]_vars
  /\ [][client'.ev.kind = "close" => client'.messageQueue = client.messageQueue]_vars
  /\ \A r \in ReqIds : (r \in queued(client)) ~> (r \in client.wire)

\* the outcomes an observer may see: none yet, next then complete, one error
OneOutcome == {<<"next", "complete">>, <<"error">>}

\* the requests the service still holds: in the queue, in the map of pending
\* requests, or by the timer that reports their timeout
held(cl) == queued(cl) \cup cl.pendingRequests \cup cl.timeouts

\* C33 (as claimed): every observer-style request passed to sendMessage gets
\* exactly one outcome, next followed by complete or a single error.  Never
\* two; and never none: a request without an outcome is still held by the
\* service (queued, pending, or its timeout armed), since a request that was
\* dropped without an outcome can get none any more.
C33_ObserverRequestGetsOneOutcome ==
  \A r \in ReqIds :
    client.style[r] = "observer"
    => /\ client.outcomes[r] \in OneOutcome \cup {<<>>}
       /\ client.outcomes[r] = <<>> => r \in held(client)

\* C39: the heartbeat callback schedules a reconnection only when the current
\* connection has been silent for more than two heartbeat intervals, counted
\* from its opening or from the last frame received on it, whichever is later.
C39_HeartbeatReconnectsOnlySilentConnection ==
  [][(client'.ev.kind = "heartbeat" /\ client'.ev.note = "reconnect")
       => client.clock - client.quietSince > HEARTBEAT_INTERVAL * 2]_vars
====
